---- MODULE Spec2Model ----
(***************************************************************************)
(* Model of shoot.py: one run of main() pages through the stargazer        *)
(* listing (get_stargazers), fetches one profile per star record and       *)
(* merges the rows into the repository's CSV file (update_csv).            *)
(*                                                                         *)
(* Values.  A Python value is a tuple of naturals whose head is a type     *)
(* tag: <<0>> is None, <<1, c1, ..., cn>> the str with code points         *)
(* c1..cn, <<2, n>> the int n.  A cell of the CSV file is text: the bare   *)
(* tuple of code points.  A row carries three of the seventeen columns:    *)
(* starred_at (copied from the star record), login (the merge key) and     *)
(* followers_count (one of the fourteen columns copied from the profile    *)
(* with dict.get, all treated alike by the code).                          *)
(***************************************************************************)
EXTENDS Integers, Sequences, FiniteSets, TLC

VARIABLES
    file,           \* the CSV file: [exists, rows]; rows are text rows
    file0,          \* the file as it was when the run started
    pc,             \* position of the run in main()
    failedAt,       \* step at which an exception was raised ("none" if none)
    pages,          \* the responses session.get returned, while get_stargazers runs
    ended,          \* how the loop of get_stargazers was left
    stargazers,     \* get_stargazers' list, then update_csv's new_stargazers
    index,          \* number of star records update_csv's loop has consumed
    attempted,      \* logins passed to get_user_details, in call order
    profiles,       \* the responses session.get returned to get_user_details
    new_data,       \* update_csv's new_data
    existing_data,  \* update_csv's existing_data (dict, insertion ordered)
    combined_data,  \* update_csv's combined_data
    run,            \* 1 for the first call of update_csv, 2 for the second
    replay,         \* the first call's profile responses, served again, and its new_data
    file1           \* the file the first call left

vars == <<file, file0, pc, failedAt, pages, ended, stargazers, index, attempted,
          profiles, new_data, existing_data, combined_data, run, replay, file1>>

-----------------------------------------------------------------------------
(* Bounds *)

MaxPages == 3
MaxPageLen == 2
MaxStars == 3
MaxFileRows == 2

-----------------------------------------------------------------------------
(* Python values and CSV text *)

PyNone == <<0>>
PyStr(text) == <<1>> \o text
PyInt(n) == <<2, n>>

IsNone(v) == v[1] = 0
IsStr(v) == v[1] = 1
IsInt(v) == v[1] = 2
TextOf(v) == Tail(v)

\* "B" and "a": in code point order "" < "B" < "a"
TextEmpty == <<>>
TextB == <<66>>
Texta == <<97>>
TextT0 == <<116, 48>>
TextT1 == <<116, 49>>

RECURSIVE Decimal(_)
Decimal(n) == IF n < 10 THEN <<48 + n>> ELSE Decimal(n \div 10) \o <<48 + (n % 10)>>

\* what csv.DictWriter writes for a value: None as the empty string, otherwise str(value)
CsvText(v) == IF IsNone(v) THEN TextEmpty
              ELSE IF IsInt(v) THEN Decimal(v[2])
              ELSE TextOf(v)

FieldNames == {"starred_at", "login", "followers_count"}

\* writer.writerows: one text row per dict
CsvRow(d) == [f \in FieldNames |-> CsvText(d[f])]

\* csv.DictReader: every cell is read back as a str
ReadRow(r) == [f \in FieldNames |-> PyStr(r[f])]

RECURSIVE TextLess(_, _)
\* str.__lt__: lexicographic by code point
TextLess(s, t) ==
    IF t = <<>> THEN FALSE
    ELSE IF s = <<>> THEN TRUE
    ELSE IF s[1] # t[1] THEN s[1] < t[1]
    ELSE TextLess(Tail(s), Tail(t))

\* the key function of combined_data.sort: x['login']
SortKey(d) == d["login"]

RECURSIVE Lower(_)
Lower(t) ==
    IF t = <<>> THEN <<>>
    ELSE <<IF Head(t) >= 65 /\ Head(t) <= 90 THEN Head(t) + 32 ELSE Head(t)>> \o Lower(Tail(t))

\* variant: the keys are compared without regard to case
MutPyLessIgnoreCase(a, b) == TextLess(Lower(TextOf(a)), Lower(TextOf(b)))

PyLess(a, b) == TextLess(TextOf(a), TextOf(b))

-----------------------------------------------------------------------------
(* dict, as an insertion-ordered sequence of [key, row] with distinct keys *)

\* variant: an existing row is updated field by field and keeps its starred_at
MutDictSetKeepStarred(d, k, v) ==
    IF \E i \in 1..Len(d) : d[i].key = k
    THEN [i \in 1..Len(d) |->
            IF d[i].key = k
            THEN [key |-> k, row |-> [v EXCEPT !["starred_at"] = d[i].row["starred_at"]]]
            ELSE d[i]]
    ELSE Append(d, [key |-> k, row |-> v])

\* d[k] = v: an existing key keeps its position, a new key goes last
DictSet(d, k, v) ==
    IF \E i \in 1..Len(d) : d[i].key = k
    THEN [i \in 1..Len(d) |-> IF d[i].key = k THEN [key |-> k, row |-> v] ELSE d[i]]
    ELSE Append(d, [key |-> k, row |-> v])

\* list(d.values())
DictValues(d) == [i \in 1..Len(d) |-> d[i].row]

\* variant: the rows of the file are kept as a list, not keyed by login
MutReadDictNoKey(rows, d) ==
    d \o [i \in 1..Len(rows) |-> [key |-> ReadRow(rows[i])["login"], row |-> ReadRow(rows[i])]]

RECURSIVE ReadDict(_, _)
\* {row['login']: row for row in reader}, rows taken in file order
ReadDict(rows, d) ==
    IF rows = <<>> THEN d
    ELSE ReadDict(Tail(rows), DictSet(d, ReadRow(Head(rows))["login"], ReadRow(Head(rows))))

RECURSIVE MutFromNew(_, _)
MutFromNew(d, news) ==
    IF news = <<>> THEN d
    ELSE MutFromNew(DictSet(d, Head(news)["login"], Head(news)), Tail(news))

\* variant: the new rows replace the file's rows instead of merging into them
MutMergeReplace(d, news) == MutFromNew(<<>>, news)

\* variant: the new rows are appended to the file's rows
MutMergeAppend(d, news) ==
    d \o [i \in 1..Len(news) |-> [key |-> news[i]["login"], row |-> news[i]]]

RECURSIVE MergeDict(_, _)
\* for new_user in new_data: existing_data[new_user['login']] = new_user
MergeDict(d, news) ==
    IF news = <<>> THEN d
    ELSE MergeDict(DictSet(d, Head(news)["login"], Head(news)), Tail(news))

\* list.sort raises TypeError once it has to compare a key that is not a str
SortRaises(l) ==
    /\ Len(l) >= 2
    /\ \E i \in 1..Len(l) : ~IsStr(SortKey(l[i]))

\* x goes before the first element whose key is greater (stable)
InsertSorted(l, x) ==
    LET before == {i \in 1..Len(l) : ~PyLess(SortKey(x), SortKey(l[i]))}
        n == IF \E i \in 1..Len(l) : i \notin before
             THEN (CHOOSE i \in 1..Len(l) : i \notin before /\ \A j \in 1..(i-1) : j \in before) - 1
             ELSE Len(l)
    IN SubSeq(l, 1, n) \o <<x>> \o SubSeq(l, n + 1, Len(l))

RECURSIVE SortFrom(_, _)
SortFrom(done, rest) ==
    IF rest = <<>> THEN done ELSE SortFrom(InsertSorted(done, Head(rest)), Tail(rest))

\* combined_data.sort(key=lambda x: x['login']), when it does not raise
SortByLogin(l) == IF Len(l) <= 1 THEN l ELSE SortFrom(<<>>, l)

\* writer.writerows(combined_data)
CsvRows(l) == [i \in 1..Len(l) |-> CsvRow(l[i])]

-----------------------------------------------------------------------------
(* What the upstream API can answer, and the files a run can start from *)

ApiLogins == {PyStr(TextB), PyStr(Texta)}

\* entries of a listing page: a user reference with a login, a user reference
\* without one, and an entry that has no 'user' key at all
Items ==
    {[user |-> [login |-> l], starred_at |-> PyStr(TextT1)] : l \in ApiLogins}
    \cup {[user |-> [id |-> PyInt(1)], starred_at |-> PyStr(TextT1)]}
    \cup {[starred_at |-> PyStr(TextT1)]}

RECURSIVE SeqsUpTo(_, _)
SeqsUpTo(S, n) ==
    IF n = 0 THEN {<<>>}
    ELSE LET shorter == SeqsUpTo(S, n - 1)
         IN shorter \cup {Append(q, x) : q \in {r \in shorter : Len(r) = n - 1}, x \in S}

\* decoded bodies: a JSON array of entries, or a JSON object with size keys
PageBodies ==
    {[kind |-> "list", items |-> q] : q \in SeqsUpTo(Items, MaxPageLen)}
    \cup {[kind |-> "object", size |-> n] : n \in {0, 1}}

PageResponses ==
    {[status |-> 200, body |-> b, next |-> n] : b \in PageBodies, n \in BOOLEAN}
    \cup {[status |-> 404, body |-> [kind |-> "object", size |-> 1], next |-> FALSE]}

\* profile bodies: a full profile, and a profile without 'login'
ProfileBodies(login) ==
    {[login |-> login, followers |-> PyInt(n)] : n \in {10, 15}}
    \cup {[followers |-> PyInt(10)]}

ProfileResponses(login) ==
    {[status |-> 200, body |-> b] : b \in ProfileBodies(login)}
    \cup {[status |-> 404, body |-> <<>>]}

OldRows ==
    {[starred_at |-> TextT0, login |-> l, followers_count |-> Decimal(10)] :
        l \in {TextEmpty, TextB, Texta}}
    \cup {[starred_at |-> TextT0, login |-> Texta, followers_count |-> Decimal(15)]}

NoFile == [exists |-> FALSE, rows |-> <<>>]

InitialFiles ==
    {NoFile} \cup {[exists |-> TRUE, rows |-> q] : q \in SeqsUpTo(OldRows, MaxFileRows)}

-----------------------------------------------------------------------------
(* The run *)

\* main has read the repository name and is about to call get_stargazers
Init ==
    /\ file \in InitialFiles
    /\ file0 = file
    /\ pc = "paging"
    /\ failedAt = "none"
    /\ pages = <<>>
    /\ ended = "none"
    /\ stargazers = <<>>
    /\ index = 0
    /\ attempted = <<>>
    /\ profiles = <<>>
    /\ new_data = <<>>
    /\ existing_data = <<>>
    /\ combined_data = <<>>
    /\ run = 1
    /\ replay = [profiles |-> <<>>, new_data |-> <<>>]
    /\ file1 = NoFile

\* update_csv is entered with any list of star records (state at line 80)
InitUpdate ==
    /\ file \in InitialFiles
    /\ file0 = file
    /\ pc = "enrich"
    /\ failedAt = "none"
    /\ pages = <<>>
    /\ ended = "none"
    /\ stargazers \in SeqsUpTo(Items, MaxStars)
    /\ index = 0
    /\ attempted = <<>>
    /\ profiles = <<>>
    /\ new_data = <<>>
    /\ existing_data = <<>>
    /\ combined_data = <<>>
    /\ run = 1
    /\ replay = [profiles |-> <<>>, new_data |-> <<>>]
    /\ file1 = NoFile

\* an exception propagates to the handler of main (lines 154-155)
Raise(step) ==
    /\ pc' = "failed"
    /\ failedAt' = step

\* variant: only the empty array counts as an empty page
MutFalsyListOnly(body) == body.kind = "list" /\ body.items = <<>>

\* not json_response
Falsy(body) ==
    \/ body.kind = "list" /\ body.items = <<>>
    \/ body.kind = "object" /\ body.size = 0

\* item['user'] or item['starred_at'] raises: iterating an object yields its
\* keys (str, not subscriptable by 'user'), an entry may lack the key
ItemRaises(body) ==
    \/ body.kind = "object"
    \/ /\ body.kind = "list"
       /\ \E i \in 1..Len(body.items) :
            ~({"user", "starred_at"} \subseteq DOMAIN body.items[i])

\* variant: the last entry of each page is left out
MutCollectedDropsLast(body) ==
    [i \in 1..(Len(body.items) - 1) |->
        [user |-> body.items[i].user, starred_at |-> body.items[i].starred_at]]

\* {'user': item['user'], 'starred_at': item['starred_at']} for each item
Collected(body) ==
    [i \in 1..Len(body.items) |->
        [user |-> body.items[i].user, starred_at |-> body.items[i].starred_at]]

\* the listing is finite: the last page offered links to no next page, and a
\* page past the end of the listing carries no link
PageOffered(resp) ==
    /\ resp.next => Len(pages) + 1 < MaxPages
    /\ resp.next => resp.status = 200 /\ ~Falsy(resp.body)
    /\ resp.body.kind = "list" => Len(stargazers) + Len(resp.body.items) <= MaxStars

\* variant: a status other than 200 raises instead of ending the loop
MutPageOutcomeStatusRaises(resp) ==
    IF resp.status # 200 THEN "raise"
    ELSE IF Falsy(resp.body) THEN "empty"
    ELSE IF ItemRaises(resp.body) THEN "raise"
    ELSE IF ~resp.next THEN "last"
    ELSE "next"

\* what the loop does with a response (lines 44-61)
PageOutcome(resp) ==
    IF resp.status # 200 THEN "status"
    ELSE IF Falsy(resp.body) THEN "empty"
    ELSE IF ItemRaises(resp.body) THEN "raise"
    ELSE IF ~resp.next THEN "last"
    ELSE "next"

\* one iteration of the loop of get_stargazers; on break the list is returned
GetStargazersStep ==
    /\ pc = "paging"
    /\ \E resp \in PageResponses :
        /\ PageOffered(resp)
        /\ pages' = Append(pages, resp)
        /\ LET outcome == PageOutcome(resp) IN
            /\ stargazers' = IF outcome \in {"last", "next"}
                             THEN stargazers \o Collected(resp.body)
                             ELSE stargazers
            /\ IF outcome = "raise"
               THEN Raise("paging") /\ UNCHANGED ended
               ELSE /\ pc' = IF outcome = "next" THEN "paging" ELSE "returned"
                    /\ ended' = IF outcome = "next" THEN ended ELSE outcome
                    /\ UNCHANGED failedAt
    /\ UNCHANGED <<file, file0, index, attempted, profiles, new_data,
                   existing_data, combined_data, run, replay, file1>>

\* session.get raises (connection error, retries exhausted)
GetStargazersRaises ==
    /\ pc = "paging"
    /\ Raise("paging")
    /\ UNCHANGED <<file, file0, pages, ended, stargazers, index, attempted, profiles,
                   new_data, existing_data, combined_data, run, replay, file1>>

\* main lines 149-151, update_csv lines 75-79: the responses are gone with
\* get_stargazers' frame, update_csv starts on the returned list
CallUpdateCsv ==
    /\ pc = "returned"
    /\ pc' = "enrich"
    /\ pages' = <<>>
    /\ index' = 0
    /\ new_data' = <<>>
    /\ UNCHANGED <<file, file0, failedAt, ended, stargazers, attempted, profiles,
                   existing_data, combined_data, run, replay, file1>>

\* os.makedirs raises
MakedirsRaises ==
    /\ pc = "returned"
    /\ pages' = <<>>
    /\ Raise("makedirs")
    /\ UNCHANGED <<file, file0, ended, stargazers, index, attempted, profiles,
                   new_data, existing_data, combined_data, run, replay, file1>>

\* dict.get: None for a missing key
Get(body, f) == IF f \in DOMAIN body THEN body[f] ELSE PyNone

\* the row update_csv builds from a star record and a profile (lines 89-107)
NewRow(star_data, user_details) ==
    [starred_at |-> star_data.starred_at,
     login |-> Get(user_details, "login"),
     followers_count |-> Get(user_details, "followers")]

\* 'user' in star_data and 'login' in star_data['user']
HasLogin(star_data) ==
    "user" \in DOMAIN star_data /\ "login" \in DOMAIN star_data.user

\* get_user_details returns the body on status 200, else None; a None or an
\* empty body fails the test "if user_details"
Usable(resp) == resp.status = 200 /\ DOMAIN resp.body # {}

\* the second call is answered as the first was
ProfileOffered(resp) ==
    run = 2 => /\ Len(profiles) < Len(replay.profiles)
               /\ resp = replay.profiles[Len(profiles) + 1]

\* variant: a record without a login raises instead of being skipped
MutEnrichStepRaises ==
    /\ pc = "enrich"
    /\ index < Len(stargazers)
    /\ LET star_data == stargazers[index + 1] IN
        IF HasLogin(star_data)
        THEN /\ \E resp \in ProfileResponses(star_data.user.login) :
                /\ ProfileOffered(resp)
                /\ attempted' = Append(attempted, star_data.user.login)
                /\ profiles' = Append(profiles, resp)
                /\ new_data' = IF Usable(resp)
                               THEN Append(new_data, NewRow(star_data, resp.body))
                               ELSE new_data
             /\ index' = index + 1
             /\ UNCHANGED <<pc, failedAt>>
        ELSE Raise("enrich") /\ UNCHANGED <<index, attempted, profiles, new_data>>
    /\ UNCHANGED <<file, file0, pages, ended, stargazers,
                   existing_data, combined_data, run, replay, file1>>

\* one iteration of the loop of update_csv over new_stargazers
EnrichStep ==
    /\ pc = "enrich"
    /\ index < Len(stargazers)
    /\ index' = index + 1
    /\ LET star_data == stargazers[index + 1] IN
        IF HasLogin(star_data)
        THEN \E resp \in ProfileResponses(star_data.user.login) :
                /\ ProfileOffered(resp)
                /\ attempted' = Append(attempted, star_data.user.login)
                /\ profiles' = Append(profiles, resp)
                /\ new_data' = IF Usable(resp)
                               THEN Append(new_data, NewRow(star_data, resp.body))
                               ELSE new_data
        ELSE UNCHANGED <<attempted, profiles, new_data>>
    /\ UNCHANGED <<file, file0, pc, failedAt, pages, ended, stargazers,
                   existing_data, combined_data, run, replay, file1>>

\* the session.get of get_user_details raises
EnrichRaises ==
    /\ pc = "enrich"
    /\ index < Len(stargazers)
    /\ HasLogin(stargazers[index + 1])
    /\ Raise("enrich")
    /\ UNCHANGED <<file, file0, pages, ended, stargazers, index, attempted, profiles,
                   new_data, existing_data, combined_data, run, replay, file1>>

\* lines 114-119: a missing file is an empty base
ReadExisting ==
    /\ pc = "enrich"
    /\ index = Len(stargazers)
    /\ existing_data' = IF file.exists THEN ReadDict(file.rows, <<>>) ELSE <<>>
    /\ pc' = "merge"
    /\ UNCHANGED <<file, file0, failedAt, pages, ended, stargazers, index, attempted,
                   profiles, new_data, combined_data, run, replay, file1>>

\* open or the reader raises something other than FileNotFoundError
ReadRaises ==
    /\ pc = "enrich"
    /\ index = Len(stargazers)
    /\ file.exists
    /\ Raise("read")
    /\ UNCHANGED <<file, file0, pages, ended, stargazers, index, attempted, profiles,
                   new_data, existing_data, combined_data, run, replay, file1>>

\* lines 122-123
MergeNew ==
    /\ pc = "merge"
    /\ existing_data' = MergeDict(existing_data, new_data)
    /\ pc' = "sort"
    /\ UNCHANGED <<file, file0, failedAt, pages, ended, stargazers, index, attempted,
                   profiles, new_data, combined_data, run, replay, file1>>

\* variant: the file is opened for writing before the rows are sorted
MutSortCombinedOpensFirst ==
    /\ pc = "sort"
    /\ file' = [exists |-> TRUE, rows |-> <<>>]
    /\ IF SortRaises(DictValues(existing_data))
       THEN Raise("sort") /\ combined_data' = DictValues(existing_data)
       ELSE /\ combined_data' = SortByLogin(DictValues(existing_data))
            /\ pc' = "write"
            /\ UNCHANGED failedAt
    /\ UNCHANGED <<file0, pages, ended, stargazers, index, attempted, profiles,
                   new_data, existing_data, run, replay, file1>>

\* lines 126-127
SortCombined ==
    /\ pc = "sort"
    /\ IF SortRaises(DictValues(existing_data))
       THEN Raise("sort") /\ combined_data' = DictValues(existing_data)
       ELSE /\ combined_data' = SortByLogin(DictValues(existing_data))
            /\ pc' = "write"
            /\ UNCHANGED failedAt
    /\ UNCHANGED <<file, file0, pages, ended, stargazers, index, attempted, profiles,
                   new_data, existing_data, run, replay, file1>>

\* lines 136-139: the file is truncated and rewritten
WriteCsv ==
    /\ pc = "write"
    /\ file' = [exists |-> TRUE, rows |-> CsvRows(combined_data)]
    /\ pc' = "done"
    /\ UNCHANGED <<file0, failedAt, pages, ended, stargazers, index, attempted, profiles,
                   new_data, existing_data, combined_data, run, replay, file1>>

\* open(filename, 'w') raises and the file is as it was, or a write raises
\* after the header and n rows
WriteRaises ==
    /\ pc = "write"
    /\ \/ UNCHANGED file
       \/ \E n \in 0..(Len(combined_data) - 1) :
            file' = [exists |-> TRUE, rows |-> SubSeq(CsvRows(combined_data), 1, n)]
    /\ Raise("write")
    /\ UNCHANGED <<file0, pages, ended, stargazers, index, attempted, profiles,
                   new_data, existing_data, combined_data, run, replay, file1>>

\* update_csv is called again with the same list and the API answers as before
Rerun ==
    /\ pc = "done"
    /\ run = 1
    /\ run' = 2
    /\ replay' = [profiles |-> profiles, new_data |-> new_data]
    /\ file1' = file
    /\ file0' = file
    /\ pc' = "enrich"
    /\ index' = 0
    /\ attempted' = <<>>
    /\ profiles' = <<>>
    /\ new_data' = <<>>
    /\ existing_data' = <<>>
    /\ combined_data' = <<>>
    /\ UNCHANGED <<file, failedAt, pages, ended, stargazers>>

UpdateCsv ==
    \/ EnrichStep
    \/ EnrichRaises
    \/ ReadExisting
    \/ ReadRaises
    \/ MergeNew
    \/ SortCombined
    \/ WriteCsv
    \/ WriteRaises

Next ==
    \/ GetStargazersStep
    \/ GetStargazersRaises
    \/ CallUpdateCsv
    \/ MakedirsRaises
    \/ UpdateCsv

NextUpdate == UpdateCsv \/ Rerun

\* one run of main
Spec == Init /\ [][Next]_vars

\* update_csv called on any list of star records, then called again
SpecUpdate == InitUpdate /\ [][NextUpdate]_vars

-----------------------------------------------------------------------------
(* Vocabulary of the properties *)

Completed == pc = "done"

RowsOf(f, l) == {i \in 1..Len(f.rows) : f.rows[i].login = l}

OldLogins == {file0.rows[i].login : i \in 1..Len(file0.rows)}

\* the logins of the new fetch, as text; a row whose login is None has none
NewLogins == {TextOf(new_data[i].login) : i \in {j \in 1..Len(new_data) : IsStr(new_data[j].login)}}

Last(S) == CHOOSE i \in S : \A j \in S : j <= i

LastOld(l) == file0.rows[Last(RowsOf(file0, l))]

LastNew(l) == new_data[Last({i \in 1..Len(new_data) : new_data[i].login = PyStr(l)})]

RECURSIVE Entries(_, _)
\* the (user, starred_at) entries of pages 1..n, in page order and in-page order
Entries(ps, n) ==
    IF n = 0 THEN <<>>
    ELSE Entries(ps, n - 1) \o
         [i \in 1..Len(ps[n].body.items) |->
            [user |-> ps[n].body.items[i].user,
             starred_at |-> ps[n].body.items[i].starred_at]]

\* a status 200 page holding a non-empty array of well-formed entries
GoodPage(resp) ==
    /\ resp.status = 200
    /\ resp.body.kind = "list"
    /\ resp.body.items # <<>>
    /\ \A i \in 1..Len(resp.body.items) : {"user", "starred_at"} \subseteq DOMAIN resp.body.items[i]

RECURSIVE WithLogin(_)
\* the logins of the records whose user reference has a login, in order
WithLogin(records) ==
    IF records = <<>> THEN <<>>
    ELSE IF "user" \in DOMAIN Head(records) /\ "login" \in DOMAIN Head(records).user
         THEN <<Head(records).user.login>> \o WithLogin(Tail(records))
         ELSE WithLogin(Tail(records))

-----------------------------------------------------------------------------
(* Properties of update_csv, under SpecUpdate *)

\* C1 key uniqueness: the file a completed call of update_csv wrote holds at
\* most one row per login, whatever the old file and the batch held
C1_KeyUniqueness ==
    Completed =>
        \A i, j \in 1..Len(file.rows) :
            file.rows[i].login = file.rows[j].login => i = j

\* a completed call whose batch held the same login twice and whose old file
\* held a login twice
C1_Witness ==
    /\ Completed
    /\ \E i, j \in 1..Len(new_data) : i # j /\ new_data[i].login = new_data[j].login
    /\ \E i, j \in 1..Len(file0.rows) : i # j /\ file0.rows[i].login = file0.rows[j].login
    /\ Len(file.rows) >= 2

\* C2 sort invariant: in the file a completed call wrote, no row's login is
\* greater, by code point, than the login of the row after it
C2_SortInvariant ==
    Completed =>
        \A i \in 1..(Len(file.rows) - 1) :
            ~TextLess(file.rows[i + 1].login, file.rows[i].login)

\* a completed call that started from an old file with "a" before "B" and
\* wrote "B" before "a"
C2_Witness ==
    /\ Completed
    /\ Len(file0.rows) = 2
    /\ file0.rows[1].login = Texta /\ file0.rows[2].login = TextB
    /\ Len(file.rows) >= 2
    /\ \E i \in 1..(Len(file.rows) - 1) :
        file.rows[i].login = TextB /\ file.rows[i + 1].login = Texta

\* C3 union-preserving merge: after a completed call, a login of the old file
\* that no new row carries still has its row (the last one the old file held
\* for it, when it held several), every field as it was
C3_UnionPreserving ==
    Completed =>
        \A l \in OldLogins :
            l \notin NewLogins =>
                /\ Cardinality(RowsOf(file, l)) = 1
                /\ file.rows[Last(RowsOf(file, l))] = LastOld(l)

\* a completed call in which a login of the old file was starred, its profile
\* fetch was not answered with 200, and other rows were merged
C3_Witness ==
    /\ Completed
    /\ \E i \in 1..Len(attempted) :
        /\ IsStr(attempted[i])
        /\ TextOf(attempted[i]) \in OldLogins
        /\ TextOf(attempted[i]) \notin NewLogins
        /\ profiles[i].status # 200
    /\ new_data # <<>>

\* the scenario of the overwrite claim, with "a" for alice and "B" for bob
C4_ScenarioOld ==
    <<[starred_at |-> TextT0, login |-> Texta, followers_count |-> Decimal(10)]>>

C4_ScenarioNew ==
    <<[starred_at |-> PyStr(TextT1), login |-> PyStr(Texta), followers_count |-> PyInt(15)],
      [starred_at |-> PyStr(TextT1), login |-> PyStr(TextB), followers_count |-> PyInt(10)]>>

C4_Scenario ==
    /\ Completed
    /\ file0.exists
    /\ file0.rows = C4_ScenarioOld
    /\ new_data = C4_ScenarioNew

\* C4 overwrite semantics: after a completed call, a login that the old file
\* and the new fetch both carry has one row, which is the last new row for it
\* as written to CSV, field by field; in the scenario the file is exactly the
\* two new rows
C4_Overwrite ==
    /\ Completed =>
        \A l \in OldLogins \cap NewLogins :
            /\ Cardinality(RowsOf(file, l)) = 1
            /\ file.rows[Last(RowsOf(file, l))] = CsvRow(LastNew(l))
    /\ C4_Scenario =>
        file.rows =
            <<[starred_at |-> TextT1, login |-> TextB, followers_count |-> <<49, 48>>],
              [starred_at |-> TextT1, login |-> Texta, followers_count |-> <<49, 53>>]>>

\* a completed call in which an old login occurs twice in the new fetch with
\* different rows
C4_Witness ==
    /\ Completed
    /\ \E l \in OldLogins \cap NewLogins :
        \E i, j \in 1..Len(new_data) :
            /\ i < j
            /\ new_data[i].login = PyStr(l)
            /\ new_data[j].login = PyStr(l)
            /\ new_data[i] # new_data[j]

\* C5 idempotence: a second call with the same new rows, right after a
\* completed first call, leaves the file the first call wrote
C5_Idempotence ==
    (run = 2 /\ new_data = replay.new_data /\ (Completed \/ failedAt = "sort")) =>
        file = file1

\* the second call completed with several new rows over several file rows
C5_Witness ==
    /\ run = 2
    /\ Completed
    /\ new_data = replay.new_data
    /\ Len(new_data) >= 2
    /\ Len(file.rows) >= 2

-----------------------------------------------------------------------------
(* Properties of a run of main, under Spec *)

LastPage == pages[Len(pages)]

EmptyBody(body) ==
    \/ body.kind = "list" /\ body.items = <<>>
    \/ body.kind = "object" /\ body.size = 0

\* N pages, all 200, the first N-1 non-empty and linking on, the last empty
C6_Listing ==
    /\ pages # <<>>
    /\ \A k \in 1..(Len(pages) - 1) : GoodPage(pages[k]) /\ pages[k].next
    /\ LastPage.status = 200
    /\ LastPage.body.kind = "list"
    /\ LastPage.body.items = <<>>

\* C6 pagination: an empty page is the last page requested and ends the loop;
\* for a listing of N pages whose last is empty get_stargazers returns the
\* entries of pages 1..N-1 in page order and in-page order
C6_Pagination ==
    /\ \A k \in 1..Len(pages) :
        (pages[k].status = 200 /\ EmptyBody(pages[k].body)) =>
            k = Len(pages) /\ pc = "returned"
    /\ C6_Listing =>
        /\ pc = "returned"
        /\ stargazers = Entries(pages, Len(pages) - 1)

\* a listing of three pages, one of them carrying two entries, has returned
C6_Witness ==
    /\ C6_Listing
    /\ Len(pages) = 3
    /\ Len(pages[1].body.items) = 2
    /\ pc = "returned"
    /\ Len(stargazers) = 3

\* C8 as stated: a 200 page whose body is empty or is not a sequence ends the
\* loop, and get_stargazers returns the earlier entries without an error
C8_MalformedPageStops ==
    (pages # <<>> /\ LastPage.status = 200
        /\ (EmptyBody(LastPage.body) \/ LastPage.body.kind # "list")) =>
        /\ pc = "returned"
        /\ failedAt = "none"
        /\ stargazers = Entries(pages, Len(pages) - 1)

\* C8 amended: a 200 page with an empty body (empty array or empty object)
\* ends the loop and the earlier entries are returned without an error; a 200
\* page whose body is a non-empty object raises, the error reaches the handler
\* of main and the file is left as it was
C8_EmptyStopsObjectRaises ==
    /\ (pages # <<>> /\ LastPage.status = 200 /\ EmptyBody(LastPage.body)) =>
        /\ pc = "returned"
        /\ failedAt = "none"
        /\ stargazers = Entries(pages, Len(pages) - 1)
    /\ (pages # <<>> /\ LastPage.status = 200
            /\ LastPage.body.kind = "object" /\ LastPage.body.size > 0) =>
        /\ pc = "failed"
        /\ failedAt = "paging"
        /\ file = file0

\* a non-empty object arrived after a page of entries, and the run has failed
C8_Witness ==
    /\ Len(pages) >= 2
    /\ GoodPage(pages[1])
    /\ LastPage.status = 200
    /\ LastPage.body.kind = "object"
    /\ LastPage.body.size > 0
    /\ pc = "failed"

\* the file update_csv writes from the old file and the new rows
MergedFile(old, news) ==
    [exists |-> TRUE,
     rows |-> CsvRows(SortByLogin(DictValues(MergeDict(ReadDict(old.rows, <<>>), news))))]

\* C9 partial results: a status other than 200 ends the loop without an error,
\* no further page is requested and the entries of the earlier pages are
\* returned; the run goes on, one fetch per returned record with a login, and
\* the file written is the merge of the old file and the new rows, however
\* the listing ended
C9_PartialPersisted ==
    /\ (pages # <<>> /\ LastPage.status # 200) =>
        /\ pc = "returned"
        /\ failedAt = "none"
        /\ ended = "status"
        /\ stargazers = Entries(pages, Len(pages) - 1)
    /\ ended = "status" => failedAt # "paging"
    /\ Completed =>
        /\ attempted = WithLogin(stargazers)
        /\ file = MergedFile(file0, new_data)

\* a run whose listing ended on a status other than 200 after some entries
\* has written new rows
C9_Witness ==
    /\ Completed
    /\ ended = "status"
    /\ stargazers # <<>>
    /\ new_data # <<>>
    /\ file # file0

\* C10 failed run: an exception raised before the rewrite reaches the handler
\* of main with the file as it was when the run started; the file changes
\* only once merging and sorting are done
C10_FailedRunUntouched ==
    /\ failedAt \notin {"none", "write"} => pc = "failed" /\ file = file0
    /\ pc \in {"paging", "returned", "enrich", "merge", "sort", "write"} => file = file0

\* the sort raised on a run that had an old file with rows and new rows
C10_Witness ==
    /\ pc = "failed"
    /\ failedAt = "sort"
    /\ file0.exists
    /\ file0.rows # <<>>
    /\ new_data # <<>>

====
